---- MODULE Spec2Model ----
(***************************************************************************)
(* Model of escrow-viewer's network selector (NetworkContext.tsx) and its  *)
(* Soroban JSON-RPC transaction client (transactionFetcher.ts).            *)
(*                                                                         *)
(* Three specifications share the module, one per independent component:   *)
(*   SpecNet    - NetworkProvider: mount effect, setNetwork, toggleNetwork *)
(*   SpecList   - fetchTransactions                                        *)
(*   SpecDetail - fetchTransactionDetails                                  *)
(***************************************************************************)
EXTENDS Integers, Sequences, FiniteSets, TLC

\* ---------------------------------------------------------------- bounds
\* number of setNetwork/toggleNetwork calls recorded in one behaviour
MaxCalls == 3
\* longest `transactions` array in a getTransactions response
MaxTxs == 2
\* longest `operations` array in a transaction envelope
MaxOps == 2

\* ------------------------------------------------------------- JS values
\* JavaScript values are tagged records, so that values of different JS
\* types can be compared.  Strings whose content the code inspects are
\* tuples of one-character strings.
Undefined == [t |-> "undefined"]
Null      == [t |-> "null"]
Num(n)    == [t |-> "number", v |-> n]
Str(s)    == [t |-> "string", v |-> s]
Obj(r)    == [t |-> "object", v |-> r]
Arr(s)    == [t |-> "array", v |-> s]

\* JS truthiness (the conversion behind `!x`, `!!x`, `a || b`, `a && b`)
Truthy(x) ==
    CASE x.t = "undefined" -> FALSE
      [] x.t = "null"      -> FALSE
      [] x.t = "number"    -> x.v # 0
      [] x.t = "string"    -> Len(x.v) > 0
      [] OTHER             -> TRUE

\* a || b
OrElse(a, b) == IF Truthy(a) THEN a ELSE b

\* ================================================================ SpecNet
\* NetworkType of '@/lib/network-config', as used at NetworkContext.tsx:24,43
NetworkType == {"testnet", "mainnet"}

\* the localStorage key
StorageKey == "escrow-viewer-network"

\* localStorage.getItem returns null for a missing entry
NoItem == "<null>"
\* what the entry may hold when the provider mounts
StoredValues == NetworkType \cup {NoItem, "", "futurenet"}

VARIABLES
    defaultNetwork,  \* getDefaultNetwork()
    currentNetwork,  \* the useState cell: the selection after all queued updates
    rendered,        \* `currentNetwork` as captured by the closures of the last render
    storage,         \* localStorage entry under StorageKey
    mounted,         \* the mount effect has run
    mountLog,        \* what the mount effect read
    calls,           \* log of setNetwork/toggleNetwork calls
    listCall,        \* arguments and transport outcome of the last fetchTransactions
    listReturn,      \* its completion
    detailCall,      \* arguments and transport outcome of the last fetchTransactionDetails
    detailReturn     \* its completion

netVars    == <<defaultNetwork, currentNetwork, rendered, storage, mounted, mountLog, calls>>
listVars   == <<listCall, listReturn>>
detailVars == <<detailCall, detailReturn>>
vars       == <<netVars, listVars, detailVars>>

Idle == [kind |-> "idle"]

\* getDefaultNetwork() lives in lib/network-config: one of the two networks
getDefaultNetwork == NetworkType

\* NetworkProvider before its mount effect has run; no fetch made
InitNet ==
    /\ defaultNetwork \in getDefaultNetwork
    /\ currentNetwork = defaultNetwork
    /\ rendered = defaultNetwork
    /\ storage \in StoredValues
    /\ mounted = FALSE
    /\ mountLog = [read |-> NoItem, failed |-> FALSE]
    /\ calls = <<>>
    /\ listCall = Idle /\ listReturn = Idle
    /\ detailCall = Idle /\ detailReturn = Idle

\* the transaction client before a call (the provider is not exercised)
InitClient ==
    /\ defaultNetwork = "testnet"
    /\ currentNetwork = "testnet"
    /\ rendered = "testnet"
    /\ storage = NoItem
    /\ mounted = FALSE
    /\ mountLog = [read |-> NoItem, failed |-> FALSE]
    /\ calls = <<>>
    /\ listCall = Idle /\ listReturn = Idle
    /\ detailCall = Idle /\ detailReturn = Idle

\* variant: the stored string is used without validating it
MountEffectAccepts_Unvalidated(savedNetwork) ==
    savedNetwork # NoItem /\ savedNetwork # ""

\* the condition under which the mount effect adopts the stored string
MountEffectAccepts(savedNetwork) ==
    savedNetwork # NoItem /\ savedNetwork # ""
        /\ (savedNetwork = "testnet" \/ savedNetwork = "mainnet")

\* useEffect(..., []) of NetworkProvider.  getItem may throw (readFails); the
\* catch only logs.  React flushes the update of a passive effect, and the
\* re-render it causes, before it dispatches any event, so the closures are
\* fresh when the first consumer call arrives.
MountEffect(readFails) ==
    /\ ~mounted
    /\ mounted' = TRUE
    /\ mountLog' = [read |-> storage, failed |-> readFails]
    /\ currentNetwork' =
           IF ~readFails /\ MountEffectAccepts(storage) THEN storage ELSE currentNetwork
    /\ rendered' = currentNetwork'
    /\ UNCHANGED <<defaultNetwork, storage, calls>>

\* variant: the state is updated after the write, inside the try block
setNetwork_StateAfterWrite(network, writeFails, caller) ==
    /\ currentNetwork' = IF writeFails THEN currentNetwork ELSE network
    /\ storage' = IF writeFails THEN storage ELSE network
    /\ calls' = Append(calls,
           [op |-> caller, arg |-> network, before |-> currentNetwork,
            fresh |-> (rendered = currentNetwork),
            after |-> currentNetwork', failed |-> writeFails, raised |-> FALSE,
            writes |-> <<[key |-> StorageKey, value |-> network]>>])

\* variant: the write is skipped when the selection does not change
setNetwork_SkipUnchanged(network, writeFails, caller) ==
    /\ currentNetwork' = network
    /\ storage' = IF writeFails \/ network = currentNetwork THEN storage ELSE network
    /\ calls' = Append(calls,
           [op |-> caller, arg |-> network, before |-> currentNetwork,
            fresh |-> (rendered = currentNetwork),
            after |-> currentNetwork', failed |-> writeFails, raised |-> FALSE,
            writes |-> IF network = currentNetwork THEN <<>>
                       ELSE <<[key |-> StorageKey, value |-> network]>>])

\* setNetwork(network): setCurrentNetwork, then setItem inside try/catch
\* (writeFails: setItem throws and leaves the entry as it was).
setNetwork(network, writeFails, caller) ==
    /\ currentNetwork' = network
    /\ storage' = IF writeFails THEN storage ELSE network
    /\ calls' = Append(calls,
           [op |-> caller, arg |-> network, before |-> currentNetwork,
            fresh |-> (rendered = currentNetwork),
            after |-> currentNetwork', failed |-> writeFails, raised |-> FALSE,
            writes |-> <<[key |-> StorageKey, value |-> network]>>])

SetNetworkCall(network, writeFails) ==
    /\ mounted
    /\ Len(calls) < MaxCalls
    /\ setNetwork(network, writeFails, "set")
    /\ UNCHANGED <<defaultNetwork, rendered, mounted, mountLog>>

\* toggleNetwork(): reads the `currentNetwork` constant of the render that
\* created this closure
toggleNetwork(writeFails) ==
    LET newNetwork == IF rendered = "testnet" THEN "mainnet" ELSE "testnet"
    IN  setNetwork(newNetwork, writeFails, "toggle")

ToggleNetworkCall(writeFails) ==
    /\ mounted
    /\ Len(calls) < MaxCalls
    /\ toggleNetwork(writeFails)
    /\ UNCHANGED <<defaultNetwork, rendered, mounted, mountLog>>

\* React re-renders the provider after the handler that queued an update
\* returns; calls made inside one handler all see the previous render.
Render ==
    /\ mounted
    /\ rendered # currentNetwork
    /\ rendered' = currentNetwork
    /\ UNCHANGED <<defaultNetwork, currentNetwork, storage, mounted, mountLog, calls>>

NextNet ==
    \/ \E f \in BOOLEAN : MountEffect(f) /\ UNCHANGED <<listVars, detailVars>>
    \/ \E n \in NetworkType, f \in BOOLEAN :
           SetNetworkCall(n, f) /\ UNCHANGED <<listVars, detailVars>>
    \/ \E f \in BOOLEAN : ToggleNetworkCall(f) /\ UNCHANGED <<listVars, detailVars>>
    \/ Render /\ UNCHANGED <<listVars, detailVars>>

SpecNet == InitNet /\ [][NextNet]_vars

\* =============================================================== SpecList
\* ----- strings the code inspects, as tuples of characters
S_retention == <<"r", "e", "t", "e", "n", "t", "i", "o", "n">>

\* String.prototype.includes
Includes(hay, needle) ==
    \E i \in 1..(Len(hay) - Len(needle) + 1) : SubSeq(hay, i, i + Len(needle) - 1) = needle

\* the JSON-RPC error code tested at transactionFetcher.ts:91
RetentionCode == -32600
\* some other JSON-RPC error code (internal error)
OtherCode == Num(-32603)
\* the default of options.limit
DefaultLimit == 50

\* ----- the three notices
NoticeRetention == Str("Transaction data beyond retention period. RPC typically retains 24h-7 days of history.")
NoticeEmpty     == Str("No recent transactions found. Note: RPC typically retains 24h-7 days of history.")
NoticeUnable    == Str("Unable to fetch transaction history. This may be due to retention limits or network issues.")

\* ----- what the RPC service may answer
ErrorMessages ==
    { Undefined,
      Num(7),
      Str(<<>>),
      Str(S_retention),
      Str(<<"n", "o", " ">> \o S_retention \o <<"!">>),
      Str(<<"R", "e", "t", "e", "n", "t", "i", "o", "n">>),
      Str(<<"r", "e", "t", "e", "n", "t", "i", "o">>),
      Str(<<"b", "u", "s", "y">>) }

ErrorCodes ==
    { Undefined, Num(RetentionCode), OtherCode,
      Str(<<"-", "3", "2", "6", "0", "0">>) }

ErrorValues ==
    {Undefined, Null, Str(<<"b", "o", "o", "m">>)}
        \cup { Obj([code |-> c, message |-> m]) : c \in ErrorCodes, m \in ErrorMessages }

RawTx(id, ledger, status, order) ==
    Obj([id |-> id, ledger |-> ledger, createdAt |-> Str(<<"t">>),
         status |-> status, applicationOrder |-> order])

S_SUCCESS == Str(<<"S", "U", "C", "C", "E", "S", "S">>)
S_FAILED  == Str(<<"F", "A", "I", "L", "E", "D">>)

\* elements of result.transactions: objects, two of them with the same id,
\* and null (a malformed element)
RawTxs ==
    { RawTx(Str(<<"a", "b", "c">>), Num(5), S_SUCCESS, Undefined),
      RawTx(Str(<<"d", "e", "f">>), Num(5), S_FAILED, Num(2)),
      RawTx(Str(<<"a", "b", "c">>), Num(6), S_SUCCESS, Num(1)),
      RawTx(Str(<<"x">>), Num(4), S_FAILED, Num(1)),
      Null }

SeqsUpTo(S, n) == UNION { [1..k -> S] : k \in 0..n }

TransactionsValues ==
    {Undefined, Num(1)} \cup { Arr(q) : q \in SeqsUpTo(RawTxs, MaxTxs) }

CursorValues == {Undefined, Str(<<>>), Str(<<"c", "1">>)}

ResultValues ==
    {Undefined, Null}
        \cup { Obj([transactions |-> txs, latestLedger |-> ll, oldestLedger |-> ol,
                    cursor |-> c]) :
               txs \in TransactionsValues,
               ll \in {Undefined, Num(0), Num(120)},
               ol \in {Undefined, Num(100)},
               c \in CursorValues }

\* results that accompany an error object or a non-2xx status
FewResults ==
    { Undefined,
      Obj([transactions |-> Arr(<<RawTx(Str(<<"a", "b", "c">>), Num(5), S_SUCCESS, Undefined)>>),
           latestLedger |-> Num(120), oldestLedger |-> Num(100),
           cursor |-> Str(<<"c", "1">>)]) }

BadJson == [t |-> "unparsable"]

\* response bodies of getTransactions: not JSON, the JSON value null, or an
\* object with `error` and `result`
ListBodies ==
    {BadJson, Null}
        \cup { Obj([error |-> e, result |-> r]) : e \in {Undefined, Null}, r \in ResultValues }
        \cup { Obj([error |-> e, result |-> r]) : e \in ErrorValues, r \in FewResults }

FewListBodies ==
    {BadJson} \cup { Obj([error |-> e, result |-> r]) : e \in ErrorValues, r \in FewResults }

\* what fetch() does: rejects, or resolves to a response with `ok` and a body
NetworkError == [kind |-> "networkError"]
NotSent      == [kind |-> "notSent"]
Response(ok, body) == [kind |-> "response", ok |-> ok, body |-> body]

ListTransports ==
    {NetworkError}
        \cup { Response(TRUE, b) : b \in ListBodies }
        \cup { Response(FALSE, b) : b \in FewListBodies }

ListOptions ==
    [ startLedger : {Undefined, Num(7)},
      cursor : {Undefined, Str(<<"c", "0">>)},
      limit : {Undefined, Num(10)} ]

\* ----- completions
Return(v) == [kind |-> "return", value |-> v]
Throw     == [kind |-> "throw"]

\* ----- fetchTransactions
\* the request body built at lines 52-73
ListRequest(options) ==
    [ method |-> "getTransactions",
      startLedger |-> options.startLedger,
      cursor |-> options.cursor,
      limit |-> IF options.limit = Undefined THEN Num(DefaultLimit) ELSE options.limit ]

\* variant: only the error code is tested
IsRetentionError_CodeOnly(error) ==
    error.t = "object" /\ error.v.code = Num(RetentionCode)

\* data.error.code === -32600 || data.error.message?.includes("retention"),
\* for the cases where evaluating it does not throw
IsRetentionError(error) ==
    \/ error.t = "object" /\ error.v.code = Num(RetentionCode)
    \/ error.t = "object" /\ error.v.message.t = "string"
           /\ Includes(error.v.message.v, S_retention)

\* the same test throws a TypeError when message is neither undefined nor a
\* string (it has no `includes`) and the code did not already match
RetentionTestThrows(error) ==
    /\ error.t = "object"
    /\ error.v.code # Num(RetentionCode)
    /\ error.v.message.t \notin {"undefined", "null", "string"}

RetentionPage ==
    [ transactions |-> <<>>, latestLedger |-> Num(0), oldestLedger |-> Num(0),
      cursor |-> Undefined, hasMore |-> FALSE, retentionNotice |-> NoticeRetention ]

FallbackPage ==
    [ transactions |-> <<>>, latestLedger |-> Num(0), oldestLedger |-> Num(0),
      cursor |-> Undefined, hasMore |-> FALSE, retentionNotice |-> NoticeUnable ]

\* the callback of .map at lines 104-110
ToMetadata(tx) ==
    [ txHash |-> tx.v.id, ledger |-> tx.v.ledger, createdAt |-> tx.v.createdAt,
      status |-> tx.v.status, applicationOrder |-> tx.v.applicationOrder ]

\* variant: transactions with an id seen earlier in the response are dropped
MapTransactions_Dedup(raw) ==
    LET keep == { i \in 1..Len(raw) : \A j \in 1..(i - 1) : raw[j].v.id # raw[i].v.id }
        F[i \in 0..Len(raw)] ==
            IF i = 0 THEN <<>>
            ELSE IF i \in keep THEN Append(F[i - 1], ToMetadata(raw[i])) ELSE F[i - 1]
    IN  F[Len(raw)]

\* raw.map(tx => ({...})) for an array of objects
MapTransactions(raw) == [ i \in 1..Len(raw) |-> ToMetadata(raw[i]) ]

\* variant: hasMore is computed as `result.cursor !== undefined`
HasMore_Defined(cursor) == cursor # Undefined

\* !!result.cursor
HasMore(cursor) == Truthy(cursor)

\* lines 103-121, for a `result` that is an object
SuccessPage(result) ==
    LET list == OrElse(result.v.transactions, Arr(<<>>))
    IN  IF list.t # "array" \/ \E i \in 1..Len(list.v) : list.v[i].t # "object"
        THEN Throw    \* TypeError: .map is not a function / reading `id` of null
        ELSE LET transactions == MapTransactions(list.v)
             IN  Return(
                   [ transactions |-> transactions,
                     latestLedger |-> OrElse(result.v.latestLedger, Num(0)),
                     oldestLedger |-> OrElse(result.v.oldestLedger, Num(0)),
                     cursor |-> result.v.cursor,
                     hasMore |-> HasMore(result.v.cursor),
                     retentionNotice |->
                         IF Len(transactions) = 0 THEN NoticeEmpty ELSE Undefined ])

\* the try block, lines 52-121: its completion
ListTryBlock(contractValid, transport) ==
    IF ~contractValid THEN Throw                      \* new Contract(contractId) throws
    ELSE IF transport.kind = "networkError" THEN Throw \* fetch rejects
    ELSE IF ~transport.ok THEN Throw                   \* HTTP error! Status: ...
    ELSE IF transport.body = BadJson THEN Throw        \* response.json() rejects
    ELSE IF transport.body.t # "object" THEN Throw     \* reading `error` of null
    ELSE LET data == transport.body.v IN
         IF Truthy(data.error) THEN
             IF data.error.t = "object" /\ RetentionTestThrows(data.error) THEN Throw
             ELSE IF IsRetentionError(data.error) THEN Return(RetentionPage)
             ELSE Throw                                \* throw new Error(message)
         ELSE IF data.result.t # "object" THEN Throw   \* reading `transactions` of undefined
         ELSE SuccessPage(data.result)

\* variant: without the outer catch
fetchTransactions_NoCatch(contractValid, transport) ==
    ListTryBlock(contractValid, transport)

\* fetchTransactions: the try block, and the catch at lines 123-134
fetchTransactions(contractValid, transport) ==
    LET c == ListTryBlock(contractValid, transport)
    IN  IF c.kind = "throw" THEN Return(FallbackPage) ELSE c

\* one call per behaviour: the function keeps no state between calls
FetchTransactionsCall(contractValid, options, transport) ==
    /\ listCall = Idle
    /\ listCall' = [ kind |-> "call", contractValid |-> contractValid,
                     options |-> options,
                     request |-> IF contractValid THEN ListRequest(options) ELSE Undefined,
                     transport |-> transport ]
    /\ listReturn' = fetchTransactions(contractValid, transport)
    /\ UNCHANGED <<netVars, detailVars>>

NextList ==
    \E options \in ListOptions :
        \/ FetchTransactionsCall(FALSE, options, NotSent)
        \/ \E transport \in ListTransports : FetchTransactionsCall(TRUE, options, transport)

SpecList == InitClient /\ [][NextList]_vars

\* ============================================================= SpecDetail
\* x?.f, and x.f on an object: undefined when the field is missing
Field(x, f) == IF x.t = "object" /\ f \in DOMAIN x.v THEN x.v[f] ELSE Undefined

S_deposit == Str(<<"d", "e", "p", "o", "s", "i", "t">>)
S_release == Str(<<"r", "e", "l", "e", "a", "s", "e">>)
S_invoke_contract ==
    Str(<<"i", "n", "v", "o", "k", "e", "_", "c", "o", "n", "t", "r", "a", "c", "t">>)
S_placeholder == Str("(Signature validation required)")

InvokeContractOp(functionName, args) ==
    Obj([body |-> Obj([invokeHostFunction |-> Obj([hostFunction |->
        Obj([invokeContract |-> Obj([functionName |-> functionName, args |-> args])])])])])

\* elements of envelope.v1.tx.operations
OperationValues ==
    { Null,
      Obj([body |-> Undefined]),
      Obj([body |-> Obj([invokeHostFunction |-> Undefined])]),
      Obj([body |-> Obj([invokeHostFunction |-> Obj([hostFunction |-> Undefined])])]),
      Obj([body |-> Obj([invokeHostFunction |-> Obj([hostFunction |->
          Obj([invokeContract |-> Undefined])])])]) }
        \cup { InvokeContractOp(f, a) :
                 f \in {Undefined, S_deposit, S_release},
                 a \in {Undefined, Arr(<<Num(1)>>)} }

OperationsValues ==
    {Undefined, Num(3)} \cup { Arr(q) : q \in SeqsUpTo(OperationValues, MaxOps) }

EnvelopeValues ==
    {Undefined}
        \cup { Obj([signatures |-> sg, v1 |-> v]) :
                 sg \in {Undefined, Arr(<<>>)},
                 v \in {Undefined, Obj([tx |-> Undefined])}
                         \cup { Obj([tx |-> Obj([operations |-> o])]) : o \in OperationsValues } }

MetaValues ==
    { Undefined,
      Obj([v3 |-> Undefined]),
      Obj([v3 |-> Obj([sorobanMeta |-> Undefined])]),
      Obj([v3 |-> Obj([sorobanMeta |-> Obj([returnValue |-> Num(42)])])]) }

TxPayload(envelopeXdr, envelope, resultMetaXdr, meta) ==
    Obj([ id |-> Str(<<"a", "b", "c">>), ledger |-> Num(5), createdAt |-> Str(<<"t">>),
          status |-> S_SUCCESS, envelopeXdr |-> envelopeXdr, envelope |-> envelope,
          resultMetaXdr |-> resultMetaXdr, meta |-> meta ])

\* data.result of getTransaction: missing, null, an object without any of
\* the members the code reads, or a transaction payload
DetailResultValues ==
    {Undefined, Null, Obj([latestLedger |-> Num(120)])}
        \cup { TxPayload(ex, e, mx, m) :
                 ex \in {Undefined, Str(<<"A">>)}, e \in EnvelopeValues,
                 mx \in {Undefined, Str(<<"B">>)}, m \in MetaValues }

FewDetailResults ==
    { Undefined,
      TxPayload(Str(<<"A">>),
                Obj([signatures |-> Arr(<<>>), v1 |-> Obj([tx |-> Obj([operations |->
                    Arr(<<InvokeContractOp(S_deposit, Arr(<<Num(1)>>))>>)])])]),
                Str(<<"B">>),
                Obj([v3 |-> Obj([sorobanMeta |-> Obj([returnValue |-> Num(42)])])])) }

DetailErrors == { Obj([code |-> OtherCode, message |-> Str(<<"b", "u", "s", "y">>)]),
                  Obj([code |-> Num(RetentionCode), message |-> Undefined]) }

DetailBodies ==
    {BadJson, Null}
        \cup { Obj([error |-> Undefined, result |-> r]) : r \in DetailResultValues }
        \cup { Obj([error |-> e, result |-> r]) : e \in DetailErrors, r \in FewDetailResults }

FewDetailBodies ==
    {BadJson} \cup { Obj([error |-> e, result |-> r]) :
                       e \in DetailErrors \cup {Undefined}, r \in FewDetailResults }

DetailTransports ==
    {NetworkError}
        \cup { Response(TRUE, b) : b \in DetailBodies }
        \cup { Response(FALSE, b) : b \in FewDetailBodies }

\* ----- fetchTransactionDetails
\* lines 175-179
Signers(tx) ==
    IF Truthy(Field(tx, "envelopeXdr")) /\ Truthy(Field(Field(tx, "envelope"), "signatures"))
    THEN <<S_placeholder>> ELSE <<>>

\* op => op.body?.invokeHostFunction, for an op that is an object
IsInvokeOp(op) == Truthy(Field(Field(op, "body"), "invokeHostFunction"))

NoExtraction == [calledFunction |-> Undefined, args |-> Undefined, result |-> Undefined]

\* the inner try block, lines 187-206; a TypeError in it (operations is not
\* an array, or find's callback reads `body` of null) is caught at 204 and
\* leaves all three undefined, since nothing was assigned before the throw
ExtractCall(tx) ==
    LET operations ==
            OrElse(Field(Field(Field(Field(tx, "envelope"), "v1"), "tx"), "operations"),
                   Arr(<<>>))
        \* positions at which find() stops: a match, or a null element
        stops == IF operations.t # "array" THEN {}
                 ELSE { i \in 1..Len(operations.v) :
                          operations.v[i].t # "object" \/ IsInvokeOp(operations.v[i]) }
        first == CHOOSE i \in stops : \A j \in stops : i <= j
        returnValue ==
            Field(Field(Field(Field(tx, "meta"), "v3"), "sorobanMeta"), "returnValue")
        result == IF Truthy(returnValue) THEN returnValue ELSE Undefined
    IN  IF operations.t # "array" THEN NoExtraction
        ELSE IF stops = {} THEN [NoExtraction EXCEPT !.result = result]
        ELSE IF operations.v[first].t # "object" THEN NoExtraction
        ELSE LET invokeOp == operations.v[first]
                 hostFunction ==
                     Field(Field(Field(invokeOp, "body"), "invokeHostFunction"), "hostFunction")
                 invokeContract == Field(hostFunction, "invokeContract")
             IN  IF Truthy(invokeContract)
                 THEN [ calledFunction |->
                            OrElse(Field(invokeContract, "functionName"), S_invoke_contract),
                        args |-> OrElse(Field(invokeContract, "args"), Arr(<<>>)),
                        result |-> result ]
                 ELSE [NoExtraction EXCEPT !.result = result]

\* if (tx.resultMetaXdr && tx.meta), line 186
ExtractionGuard(tx) == Truthy(Field(tx, "resultMetaXdr")) /\ Truthy(Field(tx, "meta"))

\* lines 174-220, for a truthy tx
BuildDetails(tx) ==
    LET x == IF ExtractionGuard(tx) THEN ExtractCall(tx) ELSE NoExtraction
    IN  Obj([ txHash |-> Field(tx, "id"), ledger |-> Field(tx, "ledger"),
              createdAt |-> Field(tx, "createdAt"), status |-> Field(tx, "status"),
              signers |-> Signers(tx),
              calledFunction |-> x.calledFunction, args |-> x.args, result |-> x.result,
              envelope |-> Field(tx, "envelope"), meta |-> Field(tx, "meta") ])

\* variant: the error member of the response is not looked at
DetailHasError_Ignored(data) == FALSE

\* if (data.error), line 166
DetailHasError(data) == Truthy(data.error)

\* the try block, lines 143-220
DetailTryBlock(transport) ==
    IF transport.kind = "networkError" THEN Throw       \* fetch rejects
    ELSE IF ~transport.ok THEN Throw                    \* HTTP error! Status: ...
    ELSE IF transport.body = BadJson THEN Throw         \* response.json() rejects
    ELSE IF transport.body.t # "object" THEN Throw      \* reading `error` of null
    ELSE LET data == transport.body.v IN
         IF DetailHasError(data) THEN Return(Null)
         ELSE IF ~Truthy(data.result) THEN Return(Null)
         ELSE Return(BuildDetails(data.result))

\* fetchTransactionDetails: the try block, and the catch at lines 222-225
fetchTransactionDetails(transport) ==
    LET c == DetailTryBlock(transport)
    IN  IF c.kind = "throw" THEN Return(Null) ELSE c

\* one call per behaviour: the function keeps no state between calls
FetchTransactionDetailsCall(txHash, transport) ==
    /\ detailCall = Idle
    /\ detailCall' = [ kind |-> "call", txHash |-> txHash,
                       request |-> [method |-> "getTransaction", hash |-> txHash],
                       transport |-> transport ]
    /\ detailReturn' = fetchTransactionDetails(transport)
    /\ UNCHANGED <<netVars, listVars>>

NextDetail ==
    \E txHash \in {Str(<<"a", "b", "c">>)}, transport \in DetailTransports :
        FetchTransactionDetailsCall(txHash, transport)

SpecDetail == InitClient /\ [][NextDetail]_vars

\* ------------------------------------------------------ SpecList claims
ListCalled == listCall.kind = "call"

\* the response was received with a 2xx status and its body parsed to an object
ListParsed ==
    /\ ListCalled
    /\ listCall.transport.kind = "response"
    /\ listCall.transport.ok
    /\ listCall.transport.body.t = "object"

\* the response body, whatever the status, is a JSON object carrying an error
\* object whose code is -32600 or whose message contains "retention"
ListBodyHasRetentionError ==
    /\ ListCalled
    /\ listCall.transport.kind = "response"
    /\ listCall.transport.body.t = "object"
    /\ LET e == listCall.transport.body.v.error IN
         /\ e.t = "object"
         /\ \/ e.v.code = Num(-32600)
            \/ e.v.message.t = "string" /\ Includes(e.v.message.v, S_retention)

\* the failures C1 lists
ListFailure ==
    /\ ListCalled
    /\ \/ ~listCall.contractValid
       \/ listCall.transport.kind = "networkError"
       \/ listCall.transport.kind = "response" /\ ~listCall.transport.ok
       \/ listCall.transport.kind = "response" /\ listCall.transport.body = BadJson
       \/ ListParsed /\ Truthy(listCall.transport.body.v.error)
              /\ ~ListBodyHasRetentionError
       \/ ListParsed /\ ~Truthy(listCall.transport.body.v.error)
              /\ listCall.transport.body.v.result \in {Undefined, Null}

\* C1: fetchTransactions never raises, and every listed failure (invalid
\* contract id, network exception, non-2xx status, unparsable body, an RPC
\* error that is not retention-related, a body without result) completes with
\* no items, zero ledger bounds, hasMore = false, no cursor and the generic
\* "unable to fetch" notice.
C1_ListNeverRaises ==
    /\ (ListCalled => listReturn.kind = "return")
    /\ (ListFailure =>
            /\ listReturn.kind = "return"
            /\ listReturn.value.transactions = <<>>
            /\ listReturn.value.latestLedger = Num(0)
            /\ listReturn.value.oldestLedger = Num(0)
            /\ listReturn.value.hasMore = FALSE
            /\ listReturn.value.cursor = Undefined
            /\ listReturn.value.retentionNotice = NoticeUnable)

\* an RPC error that is not retention-related, received with status 2xx
C1_Witness ==
    /\ ListParsed
    /\ listCall.transport.body.v.error.t = "object"
    /\ listCall.transport.body.v.error.v.code = OtherCode
    /\ ListFailure
    /\ listReturn = Return(FallbackPage)

IsRetentionListing ==
    /\ listReturn.kind = "return"
    /\ listReturn.value.transactions = <<>>
    /\ listReturn.value.latestLedger = Num(0)
    /\ listReturn.value.oldestLedger = Num(0)
    /\ listReturn.value.hasMore = FALSE
    /\ listReturn.value.retentionNotice = NoticeRetention
    /\ NoticeRetention # NoticeUnable

\* C2 (as stated): whenever the response carries an error object with code
\* -32600 or a message containing "retention", the result is the empty
\* listing with the retention-specific notice.
C2_RetentionErrorGivesRetentionNotice ==
    ListBodyHasRetentionError => IsRetentionListing

\* C2 (amended): the same, for a response received with a 2xx status.
C2_RetentionErrorGivesRetentionNotice_Http2xx ==
    ListParsed /\ ListBodyHasRetentionError => IsRetentionListing

\* a retention error recognised by its message alone, with a limit requested
C2_Witness ==
    /\ ListParsed
    /\ ListBodyHasRetentionError
    /\ listCall.transport.body.v.error.v.code # Num(-32600)
    /\ listCall.options.limit # Undefined
    /\ listCall.options.cursor # Undefined
    /\ IsRetentionListing

\* C7 (as stated): in every returned page, hasMore is true iff the page's
\* cursor field is present.
C7_HasMoreIffCursorPresent ==
    listReturn.kind = "return" =>
        (listReturn.value.hasMore <=> listReturn.value.cursor # Undefined)

\* C7 (amended): in every returned page, hasMore is true iff the page's
\* cursor field is a non-empty string.
C7_HasMoreIffCursorNonEmpty ==
    listReturn.kind = "return" =>
        (listReturn.value.hasMore <=>
            (listReturn.value.cursor.t = "string" /\ Len(listReturn.value.cursor.v) > 0))

\* a success page that carries a cursor
C7_Witness ==
    /\ ListParsed
    /\ listReturn.kind = "return"
    /\ listReturn.value.hasMore
    /\ listReturn.value.cursor = Str(<<"c", "1">>)
    /\ Len(listReturn.value.transactions) > 0

\* an error-free response whose result is an object and whose transactions
\* field is missing or an array of objects
ListWellFormed ==
    /\ ListParsed
    /\ ~Truthy(listCall.transport.body.v.error)
    /\ listCall.transport.body.v.result.t = "object"
    /\ LET txs == listCall.transport.body.v.result.v.transactions IN
         \/ txs = Undefined
         \/ txs.t = "array" /\ \A i \in 1..Len(txs.v) : txs.v[i].t = "object"

\* C8: for a well-formed, error-free response the page holds one summary per
\* raw transaction, in response order, with txHash = id and ledger,
\* createdAt, status, applicationOrder copied; no transactions field gives
\* an empty list.
C8_ListMapsOneToOneInOrder ==
    ListWellFormed =>
        LET txs == listCall.transport.body.v.result.v.transactions
            raw == IF txs = Undefined THEN <<>> ELSE txs.v
        IN  /\ listReturn.kind = "return"
            /\ Len(listReturn.value.transactions) = Len(raw)
            /\ \A i \in 1..Len(raw) :
                 /\ listReturn.value.transactions[i].txHash = raw[i].v.id
                 /\ listReturn.value.transactions[i].ledger = raw[i].v.ledger
                 /\ listReturn.value.transactions[i].createdAt = raw[i].v.createdAt
                 /\ listReturn.value.transactions[i].status = raw[i].v.status
                 /\ listReturn.value.transactions[i].applicationOrder
                        = raw[i].v.applicationOrder

\* two raw transactions with the same id, both kept, in order
C8_Witness ==
    /\ ListWellFormed
    /\ listReturn.kind = "return"
    /\ Len(listReturn.value.transactions) = 2
    /\ listReturn.value.transactions[1].txHash = listReturn.value.transactions[2].txHash
    /\ listReturn.value.transactions[1].ledger = Num(6)
    /\ listReturn.value.transactions[2].ledger = Num(5)

\* ---------------------------------------------------- SpecDetail claims
DetailCalled == detailCall.kind = "call"

DetailParsed ==
    /\ DetailCalled
    /\ detailCall.transport.kind = "response"
    /\ detailCall.transport.ok
    /\ detailCall.transport.body.t = "object"

\* the cases in which C4 expects "not found"
DetailNotFoundCase ==
    /\ DetailCalled
    /\ \/ detailCall.transport.kind = "networkError"
       \/ detailCall.transport.kind = "response" /\ ~detailCall.transport.ok
       \/ detailCall.transport.kind = "response" /\ detailCall.transport.body \in {BadJson, Null}
       \/ DetailParsed /\ detailCall.transport.body.v.error.t = "object"
       \/ DetailParsed /\ detailCall.transport.body.v.result \in {Undefined, Null}

\* C4: fetchTransactionDetails never raises; it returns null on a network
\* exception, a non-2xx status, an unparsable body, a response with an error
\* object, and a response without result payload, and returns a detail
\* object in every other case, that is only for an error-free response with
\* a result payload.
C4_DetailNullOnFailure ==
    DetailCalled =>
        /\ detailReturn.kind = "return"
        /\ (DetailNotFoundCase <=> detailReturn.value = Null)
        /\ (~DetailNotFoundCase =>
                /\ detailReturn.value.t = "object"
                /\ detailReturn.value.v.txHash
                       = Field(detailCall.transport.body.v.result, "id"))

\* an error object next to a result payload: still "not found"
C4_Witness ==
    /\ DetailParsed
    /\ detailCall.transport.body.v.error.t = "object"
    /\ detailCall.transport.body.v.result.t = "object"
    /\ detailReturn = Return(Null)

\* the operations of the payload's envelope (none when the envelope has no
\* operations member)
DetailTx == detailCall.transport.body.v.result
DetailOperations ==
    OrElse(Field(Field(Field(Field(DetailTx, "envelope"), "v1"), "tx"), "operations"),
           Arr(<<>>))
\* the operations with an invoke-host-function body
DetailInvokeOps ==
    { i \in 1..Len(DetailOperations.v) :
        Field(Field(DetailOperations.v[i], "body"), "invokeHostFunction").t = "object" }
\* the shape matches: operations is an array, and the lookup meets only
\* objects up to the first operation with an invoke-host-function body
DetailShapeOk ==
    /\ DetailOperations.t = "array"
    /\ \A i \in 1..Len(DetailOperations.v) :
           DetailOperations.v[i].t # "object" => \E j \in DetailInvokeOps : j < i
DetailFirstInvokeContract ==
    LET i == CHOOSE k \in DetailInvokeOps : \A j \in DetailInvokeOps : k <= j
    IN  Field(Field(Field(Field(DetailOperations.v[i], "body"), "invokeHostFunction"),
                    "hostFunction"), "invokeContract")
DetailCarriesInvokeContract ==
    DetailShapeOk /\ DetailInvokeOps # {} /\ DetailFirstInvokeContract.t = "object"

DetailCallReadFromFirstInvokeOp ==
    /\ detailReturn.value.v.calledFunction # Undefined
    /\ (Field(DetailFirstInvokeContract, "functionName") # Undefined =>
            detailReturn.value.v.calledFunction = Field(DetailFirstInvokeContract, "functionName"))
    /\ detailReturn.value.v.args # Undefined
    /\ (Field(DetailFirstInvokeContract, "args") # Undefined =>
            detailReturn.value.v.args = Field(DetailFirstInvokeContract, "args"))

DetailCallAbsent ==
    /\ detailReturn.value.v.calledFunction = Undefined
    /\ detailReturn.value.v.args = Undefined

DetailReturned ==
    DetailCalled /\ detailReturn.kind = "return" /\ detailReturn.value # Null

\* C9 (as stated): in a returned detail, calledFunction and args are read
\* from the first operation with an invoke-host-function body whenever that
\* operation carries an invoke-contract call; with no such operation, or a
\* shape that does not match, they are absent; no error is raised.
C9_CallReadFromFirstInvokeOp ==
    /\ (DetailCalled => detailReturn.kind = "return")
    /\ (DetailReturned =>
            IF DetailCarriesInvokeContract
            THEN DetailCallReadFromFirstInvokeOp
            ELSE DetailCallAbsent)

\* C9, supplementary: what the code does.  The statement of C9 holds for the
\* payloads that carry both resultMetaXdr and meta, and for every other
\* payload calledFunction and args are absent.
C9_CallReadOnlyWhenMetaPresent ==
    /\ (DetailCalled => detailReturn.kind = "return")
    /\ (DetailReturned =>
            IF Truthy(Field(DetailTx, "resultMetaXdr")) /\ Truthy(Field(DetailTx, "meta"))
                   /\ DetailCarriesInvokeContract
            THEN DetailCallReadFromFirstInvokeOp
            ELSE DetailCallAbsent)

\* ------------------------------------------------------- SpecNet claims
Last(s) == s[Len(s)]
Other(n) == IF n = "testnet" THEN "mainnet" ELSE "testnet"

\* C3 (as stated): every toggleNetwork() call leaves the selection at the
\* other network, and two toggleNetwork() calls in a row leave it at the
\* value it had before the first.
C3_ToggleIsInvolution ==
    \A i \in 1..Len(calls) :
        calls[i].op = "toggle" =>
            /\ calls[i].after = Other(calls[i].before)
            /\ (i > 1 /\ calls[i-1].op = "toggle" => calls[i].after = calls[i-1].before)

\* C3, supplementary: what the code does.  A toggleNetwork() call made from
\* the closures of a render that has seen the latest selection yields the
\* other network, and two such calls in a row restore the selection.
C3_ToggleFromFreshRenderFlips ==
    \A i \in 1..Len(calls) :
        calls[i].op = "toggle" /\ calls[i].fresh =>
            /\ calls[i].after = Other(calls[i].before)
            /\ (i > 1 /\ calls[i-1].op = "toggle" /\ calls[i-1].fresh =>
                    calls[i].after = calls[i-1].before)

\* C5: every setNetwork(network) call leaves the in-memory selection equal to
\* `network` and completes normally, whether or not the storage write failed.
C5_SetUpdatesSelectionDespiteStorageFailure ==
    /\ \A i \in 1..Len(calls) :
           calls[i].op = "set" => calls[i].after = calls[i].arg /\ ~calls[i].raised
    /\ (calls # <<>> /\ Last(calls).op = "set" => currentNetwork = Last(calls).arg)

\* a set() whose write failed and which changed the selection
C5_Witness ==
    /\ calls # <<>>
    /\ Last(calls).op = "set"
    /\ Last(calls).failed
    /\ Last(calls).before # Last(calls).arg
    /\ currentNetwork = Last(calls).arg
    /\ storage # currentNetwork

\* C6: the selection starts at the default network; the mount effect replaces
\* it by the persisted value exactly when the read succeeds and the value is
\* 'testnet' or 'mainnet', and otherwise leaves the default in place.
C6_StartupSelection ==
    /\ (~mounted => currentNetwork = defaultNetwork)
    /\ (mounted /\ calls = <<>> =>
            currentNetwork =
                IF ~mountLog.failed /\ mountLog.read \in {"testnet", "mainnet"}
                THEN mountLog.read ELSE defaultNetwork)

\* a valid persisted value that differs from the default has been adopted
C6_Witness ==
    /\ mounted
    /\ calls = <<>>
    /\ ~mountLog.failed
    /\ mountLog.read \in {"testnet", "mainnet"}
    /\ mountLog.read # defaultNetwork
    /\ currentNetwork = mountLog.read

\* C10: when the most recent setNetwork/toggleNetwork call wrote without a
\* storage failure, the persisted entry equals the in-memory selection; and
\* every call attempts exactly one write, of the new selection, under the
\* fixed key.
C10_PersistedMatchesSelection ==
    /\ (calls # <<>> /\ ~Last(calls).failed => storage = currentNetwork)
    /\ \A i \in 1..Len(calls) :
           calls[i].writes = <<[key |-> "escrow-viewer-network", value |-> calls[i].after]>>

\* a successful write after a failed one, both changing the selection
C10_Witness ==
    /\ Len(calls) >= 2
    /\ calls[Len(calls) - 1].failed
    /\ calls[Len(calls) - 1].before # calls[Len(calls) - 1].after
    /\ ~Last(calls).failed
    /\ Last(calls).before # Last(calls).after
    /\ storage = currentNetwork

====
